---- MODULE Spec2Model ----
(***************************************************************************)
(* A model of task_remainder.py: the four task functions (schedule_tasks,  *)
(* sort_tasks, check_for_reminders, analyze_busy_slots) and the            *)
(* TaskSchedulerApp event handlers (add_task, view_gantt_chart, the        *)
(* 60-second reminder timer).                                              *)
(*                                                                         *)
(* A datetime is an integer number of seconds on one time line (the code   *)
(* never looks below the second: microseconds are only ever cleared).      *)
(* A Python list is a sequence; the list object the caller passes is the   *)
(* variable tasks, so an in-place list.sort shows as a change of tasks.    *)
(***************************************************************************)
EXTENDS Integers, Sequences, FiniteSets, TLC

VARIABLES
    tasks,           \* the caller's list object (self.tasks in the app)
    call,            \* the last call: its name, the list as passed, its argument
    result,          \* what the last call returned
    time_slots,      \* analyze_busy_slots' dict at its return, in insertion order
    pending,         \* number of root.after timers waiting to fire
    pc,              \* "idle" in the event loop, "callback" inside the timer callback
    reminder_label   \* the text of self.reminder_label, as its lines

vars == <<tasks, call, result, time_slots, pending, pc, reminder_label>>

----------------------------------------------------------------------------
(* Units and bounds *)

Minute == 60
Hour == 3600
Day == 86400

MaxTasks == 3        \* longest list handed to a task function
MaxBudget == 4       \* largest max_time handed to schedule_tasks
MaxCoreTasks == 2    \* longest list when all four task functions run on it
MaxAppTasks == 2     \* the app stops accepting tasks at this many

HM(h, m) == h * Hour + m * Minute

----------------------------------------------------------------------------
(* class Task *)

Task(name, task_type, priority, start_time, end_time, deadline) ==
    [name |-> name, task_type |-> task_type, priority |-> priority,
     start_time |-> start_time, end_time |-> end_time, deadline |-> deadline]

----------------------------------------------------------------------------
(* Python built-ins the functions use *)

Max2(a, b) == IF a >= b THEN a ELSE b

\* int(n / d) in place of round(n / d): the fraction dropped
RoundTruncates(n, d) == n \div d

\* round(n / d) for a positive d: to the nearest integer, a half to the even one
RoundHalfEven(n, d) ==
    LET q == n \div d
        r == n % d
    IN  IF 2 * r < d THEN q
        ELSE IF 2 * r > d THEN q + 1
        ELSE IF q % 2 = 0 THEN q ELSE q + 1

Reverse(s) == [j \in 1..Len(s) |-> s[Len(s) + 1 - j]]

\* str comparison of the task_type labels
TypeRank(task_type) ==
    CASE task_type = "Academic" -> 1
      [] task_type = "Personal" -> 2
      [] OTHER -> 3

RECURSIVE InsertByKey(_, _, _)
\* one step of a stable sort: index i goes behind every index whose key is <= its own
InsertByKey(out, i, keys) ==
    IF out = <<>> THEN <<i>>
    ELSE IF keys[i] < keys[Head(out)] THEN <<i>> \o out
    ELSE <<Head(out)>> \o InsertByKey(Tail(out), i, keys)

RECURSIVE SortIndices(_, _)
\* the indices 1..n in ascending key order, equal keys in index order
SortIndices(keys, n) ==
    IF n = 0 THEN <<>> ELSE InsertByKey(SortIndices(keys, n - 1), n, keys)

\* list.sort(key=..., reverse=...): stable; with reverse the list is reversed,
\* sorted ascending and reversed again
list_sort(s, keys, reverse) ==
    LET n == Len(s)
    IN  IF reverse
        THEN LET rs == Reverse(s)
                 perm == SortIndices(Reverse(keys), n)
             IN  Reverse([j \in 1..n |-> rs[perm[j]]])
        ELSE LET perm == SortIndices(keys, n)
             IN  [j \in 1..n |-> s[perm[j]]]

----------------------------------------------------------------------------
(* schedule_tasks *)

Duration(task) == RoundHalfEven(task.end_time - task.start_time, Hour)

RECURSIVE DpInnerReusesTask(_, _, _, _, _)
DpInnerReusesTask(dp, i, top, duration, priority) ==
    IF i > top THEN dp
    ELSE DpInnerReusesTask([dp EXCEPT ![i] = Max2(dp[i], dp[i - duration] + priority)],
                           i + 1, top, duration, priority)

\* the inner loop run in increasing capacity order
DpInnerAscending(dp, i, duration, priority) ==
    DpInnerReusesTask(dp, duration, i, duration, priority)

RECURSIVE DpInnerSkipsExactFit(_, _, _, _)
\* the inner loop stopping one short: range(max_time, duration, -1)
DpInnerSkipsExactFit(dp, i, duration, priority) ==
    IF i <= duration THEN dp
    ELSE DpInnerSkipsExactFit([dp EXCEPT ![i] = Max2(dp[i], dp[i - duration] + priority)],
                              i - 1, duration, priority)

RECURSIVE DpInner(_, _, _, _)
\* for i in range(max_time, duration - 1, -1): dp[i] = max(dp[i], dp[i - duration] + priority)
DpInner(dp, i, duration, priority) ==
    IF i < duration THEN dp
    ELSE DpInner([dp EXCEPT ![i] = Max2(dp[i], dp[i - duration] + priority)],
                 i - 1, duration, priority)

RECURSIVE DpOuter(_, _, _)
\* for task in tasks: ...
DpOuter(dp, ts, max_time) ==
    IF ts = <<>> THEN dp
    ELSE DpOuter(DpInner(dp, max_time, Duration(Head(ts)), Head(ts).priority),
                 Tail(ts), max_time)

\* tasks.sort(key=lambda x: x.end_time)
SortedByEnd(ts) == list_sort(ts, [j \in 1..Len(ts) |-> ts[j].end_time], FALSE)

\* the value schedule_tasks returns
schedule_value(ts, max_time) ==
    DpOuter([i \in 0..max_time |-> 0], SortedByEnd(ts), max_time)[max_time]

----------------------------------------------------------------------------
(* sort_tasks *)

\* the priority branch written as an ascending sort followed by a reversal
sort_tasks_reversed_after(ts, by) ==
    LET n == Len(ts)
    IN  IF by = "priority"
          THEN Reverse(list_sort(ts, [j \in 1..n |-> ts[j].priority], FALSE))
        ELSE IF by = "start_time"
          THEN list_sort(ts, [j \in 1..n |-> ts[j].start_time], FALSE)
        ELSE IF by = "end_time"
          THEN list_sort(ts, [j \in 1..n |-> ts[j].end_time], FALSE)
        ELSE IF by = "task_type"
          THEN list_sort(ts, [j \in 1..n |-> TypeRank(ts[j].task_type)], FALSE)
        ELSE ts

\* the list after sort_tasks(tasks, by), which is also what it returns
sort_tasks_list(ts, by) ==
    LET n == Len(ts)
    IN  IF by = "priority"
          THEN list_sort(ts, [j \in 1..n |-> ts[j].priority], TRUE)
        ELSE IF by = "start_time"
          THEN list_sort(ts, [j \in 1..n |-> ts[j].start_time], FALSE)
        ELSE IF by = "end_time"
          THEN list_sort(ts, [j \in 1..n |-> ts[j].end_time], FALSE)
        ELSE IF by = "task_type"
          THEN list_sort(ts, [j \in 1..n |-> TypeRank(ts[j].task_type)], FALSE)
        ELSE ts

----------------------------------------------------------------------------
(* check_for_reminders *)

Message(kind, name) == [kind |-> kind, name |-> name]

RECURSIVE RemindersUpperExclusive(_, _)
\* the approaching window with its upper bound exclusive
RemindersUpperExclusive(ts, current_time) ==
    IF ts = <<>> THEN <<>>
    ELSE LET task == Head(ts)
             time_to_deadline == task.deadline - current_time
             rest == RemindersUpperExclusive(Tail(ts), current_time)
         IN  IF 0 <= time_to_deadline /\ time_to_deadline < Hour
               THEN <<Message("approaching", task.name)>> \o rest
             ELSE IF time_to_deadline < 0
               THEN <<Message("missed", task.name)>> \o rest
             ELSE rest

RECURSIVE check_for_reminders_list(_, _)
\* the list check_for_reminders returns
check_for_reminders_list(ts, current_time) ==
    IF ts = <<>> THEN <<>>
    ELSE LET task == Head(ts)
             time_to_deadline == task.deadline - current_time
             rest == check_for_reminders_list(Tail(ts), current_time)
         IN  IF 0 <= time_to_deadline /\ time_to_deadline <= Hour
               THEN <<Message("approaching", task.name)>> \o rest
             ELSE IF time_to_deadline < 0
               THEN <<Message("missed", task.name)>> \o rest
             ELSE rest

----------------------------------------------------------------------------
(* analyze_busy_slots *)

\* start.replace(second=0, microsecond=0, minute=(start.minute // time_interval) * time_interval)
RoundedTime(start, time_interval) ==
    LET minute == (start % Hour) \div Minute
    IN  start - (start % Hour) + ((minute \div time_interval) * time_interval) * Minute

\* time_slots[rounded_time] = time_slots.get(rounded_time, 0) + 1
Increment(slots, rounded_time) ==
    IF \E k \in 1..Len(slots) : slots[k].slot = rounded_time
    THEN [k \in 1..Len(slots) |->
            IF slots[k].slot = rounded_time
            THEN [slot |-> rounded_time, count |-> slots[k].count + 1]
            ELSE slots[k]]
    ELSE Append(slots, [slot |-> rounded_time, count |-> 1])

RECURSIVE WalkTask(_, _, _, _)
\* while start < end: ...; start += timedelta(minutes=time_interval)
WalkTask(slots, start, end, time_interval) ==
    IF start < end
    THEN WalkTask(Increment(slots, RoundedTime(start, time_interval)),
                  start + time_interval * Minute, end, time_interval)
    ELSE slots

RECURSIVE FillSlots(_, _, _)
\* for task in tasks: ...
FillSlots(slots, ts, time_interval) ==
    IF ts = <<>> THEN slots
    ELSE FillSlots(WalkTask(slots, Head(ts).start_time, Head(ts).end_time, time_interval),
                   Tail(ts), time_interval)

\* max(time_slots, key=time_slots.get): the first key, in the dict's insertion
\* order, whose count no other key exceeds
MaxDensityIndex(slots) ==
    CHOOSE k \in 1..Len(slots) :
        /\ \A j \in 1..Len(slots) : slots[j].count <= slots[k].count
        /\ \A j \in 1..(k - 1) : slots[j].count < slots[k].count

\* what analyze_busy_slots returns; max() of an empty dict raises ValueError
busy_result(slots) ==
    IF slots = <<>>
    THEN [raised |-> "ValueError", slot |-> 0, count |-> 0]
    ELSE [raised |-> "", slot |-> slots[MaxDensityIndex(slots)].slot,
          count |-> slots[MaxDensityIndex(slots)].count]

----------------------------------------------------------------------------
(* The task functions, called on a list the caller owns *)

\* def schedule_tasks(tasks, max_time): sorts the list in place, returns dp[max_time]
schedule_tasks(max_time) ==
    /\ pc = "idle"
    /\ call' = [op |-> "schedule_tasks", tasks |-> tasks, arg |-> max_time]
    /\ tasks' = SortedByEnd(tasks)
    /\ result' = schedule_value(tasks, max_time)
    /\ UNCHANGED <<time_slots, pending, reminder_label, pc>>

\* def sort_tasks(tasks, by): sorts the list in place and returns that same list
sort_tasks(by) ==
    /\ pc = "idle"
    /\ call' = [op |-> "sort_tasks", tasks |-> tasks, arg |-> by]
    /\ tasks' = sort_tasks_list(tasks, by)
    /\ result' = sort_tasks_list(tasks, by)
    /\ UNCHANGED <<time_slots, pending, reminder_label, pc>>

\* def check_for_reminders(tasks, current_time)
check_for_reminders(current_time) ==
    /\ pc = "idle"
    /\ call' = [op |-> "check_for_reminders", tasks |-> tasks, arg |-> current_time]
    /\ result' = check_for_reminders_list(tasks, current_time)
    /\ UNCHANGED <<tasks, time_slots, pending, reminder_label, pc>>

\* def analyze_busy_slots(tasks, time_interval)
analyze_busy_slots(time_interval) ==
    /\ pc = "idle"
    /\ call' = [op |-> "analyze_busy_slots", tasks |-> tasks, arg |-> time_interval]
    /\ time_slots' = FillSlots(<<>>, tasks, time_interval)
    /\ result' = busy_result(FillSlots(<<>>, tasks, time_interval))
    /\ UNCHANGED <<tasks, pending, reminder_label, pc>>

----------------------------------------------------------------------------
(* Inputs of the task functions *)

SeqsUpTo(S, n) == UNION {[1..k -> S] : k \in 0..n}

\* windows whose length is a whole number of hours, a half hour off one, or in between;
\* priorities positive, zero and negative
SchedulePool ==
    { Task("A", "Personal",  3, HM(9, 0),   HM(11, 0),  0),   \* 2h
      Task("B", "Academic",  5, HM(10, 30), HM(13, 30), 0),   \* 3h
      Task("C", "Personal",  2, HM(13, 0),  HM(14, 0),  0),   \* 1h
      Task("D", "Academic",  3, HM(9, 0),   HM(10, 40), 0),   \* 1h40 rounds to 2
      Task("E", "Academic",  4, HM(14, 30), HM(17, 0),  0),   \* 2h30 rounds to 2
      Task("F", "Personal",  2, HM(9, 0),   HM(9, 30),  0),   \* 0h30 rounds to 0
      Task("G", "Personal", -1, HM(9, 0),   HM(10, 0),  0),   \* 1h
      Task("H", "Academic",  0, HM(10, 0),  HM(11, 30), 0),   \* 1h30 rounds to 2
      Task("I", "Personal", -2, HM(9, 0),   HM(9, 20),  0) }  \* 0h20 rounds to 0

Budgets == 0..MaxBudget

\* tasks that tie on every sort key with some other task and differ elsewhere
SortPool ==
    { Task("a", "Personal", 1, HM(9, 0),  HM(11, 0), 0),
      Task("b", "Academic", 2, HM(9, 0),  HM(10, 0), 0),
      Task("c", "Personal", 2, HM(10, 0), HM(11, 0), 0),
      Task("d", "Academic", 1, HM(10, 0), HM(12, 0), 0),
      Task("e", "Work",     3, HM(8, 0),  HM(10, 0), 0) }

SortKeys == {"priority", "start_time", "end_time", "task_type", "name"}

\* deadlines an hour apart, read at times on and one second off each boundary
ReminderPool ==
    { Task("x", "Personal", 1, HM(9, 0), HM(10, 0), HM(12, 0)),
      Task("y", "Academic", 2, HM(9, 0), HM(10, 0), HM(13, 0)),
      Task("z", "Personal", 3, HM(9, 0), HM(10, 0), HM(12, 0) + 1),
      Task("w", "Academic", 4, HM(9, 0), HM(10, 0), HM(11, 0) - 1) }

ReminderTimes ==
    { HM(11, 0) - 1, HM(11, 0), HM(11, 0) + 1, HM(11, 30),
      HM(12, 0) - 1, HM(12, 0), HM(12, 0) + 1, HM(13, 0), HM(13, 0) + 1 }

\* windows on and off the bucket boundaries
BusyPool ==
    { Task("p", "Personal", 1, HM(9, 0),  HM(9, 30),  0),
      Task("q", "Academic", 1, HM(10, 0), HM(10, 30), 0),
      Task("r", "Personal", 1, HM(9, 20), HM(9, 40),  0),
      Task("s", "Academic", 1, HM(9, 0),  HM(10, 30), 0),
      Task("t", "Personal", 1, HM(9, 45), HM(11, 5),  0) }

Intervals == {15, 30, 60}

\* before any call; arg and result hold values of the kind the calls will put there
NoCall(arg) == [op |-> "none", tasks |-> <<>>, arg |-> arg]

InitOn(pool, longest, arg, returned) ==
    /\ tasks \in SeqsUpTo(pool, longest)
    /\ call = NoCall(arg)
    /\ result = returned
    /\ time_slots = <<>>
    /\ pending = 0
    /\ pc = "idle"
    /\ reminder_label = <<>>

InitSchedule == InitOn(SchedulePool, MaxTasks, 0, 0)
NextSchedule == \E max_time \in Budgets : schedule_tasks(max_time)
SpecSchedule == InitSchedule /\ [][NextSchedule]_vars

InitSort == InitOn(SortPool, MaxTasks, "", <<>>)
NextSort == \E by \in SortKeys : sort_tasks(by)
SpecSort == InitSort /\ [][NextSort]_vars

InitReminders == InitOn(ReminderPool, MaxTasks, 0, <<>>)
NextReminders == \E current_time \in ReminderTimes : check_for_reminders(current_time)
SpecReminders == InitReminders /\ [][NextReminders]_vars

InitBusy == InitOn(BusyPool, MaxTasks, 0, [raised |-> "", slot |-> 0, count |-> 0])
NextBusy == \E time_interval \in Intervals : analyze_busy_slots(time_interval)
SpecBusy == InitBusy /\ [][NextBusy]_vars

\* every task function, on every input above
InitCore ==
    InitOn(SchedulePool \cup SortPool \cup ReminderPool \cup BusyPool, MaxCoreTasks, 0, 0)
NextCore ==
    \/ \E max_time \in Budgets : schedule_tasks(max_time)
    \/ \E by \in SortKeys : sort_tasks(by)
    \/ \E current_time \in ReminderTimes : check_for_reminders(current_time)
    \/ \E time_interval \in Intervals : analyze_busy_slots(time_interval)
SpecCore == InitCore /\ [][NextCore]_vars

----------------------------------------------------------------------------
(* class TaskSchedulerApp *)

\* An Entry's text is the numbers typed into it: <<h, m>> for "h:m",
\* <<day, h, m>> for a date and "h:m", <<>> for a field left blank.

\* datetime.strptime(text, "%H:%M"): a time on 1900-01-01, or ValueError
ParseHM(text) ==
    IF Len(text) = 2 /\ text[1] \in 0..23 /\ text[2] \in 0..59
    THEN [ok |-> TRUE, value |-> HM(text[1], text[2])]
    ELSE [ok |-> FALSE, value |-> 0]

\* datetime.strptime(text, "%Y-%m-%d %H:%M"), the date as a count of days
ParseDeadline(text) ==
    IF Len(text) = 3 /\ text[2] \in 0..23 /\ text[3] \in 0..59
    THEN [ok |-> TRUE, value |-> text[1] * Day + HM(text[2], text[3])]
    ELSE [ok |-> FALSE, value |-> 0]

\* self.root.after(60000, self.check_and_update_reminders) with the timer cancelled again
root_after_dropped(waiting) == waiting

\* self.root.after(60000, self.check_and_update_reminders): one more timer waits
root_after(waiting) == waiting + 1

\* the validation written start_time > end_time
add_task_allows_empty_window(ts, name, task_type, priority, start_text, end_text, deadline_text) ==
    LET start_time == ParseHM(start_text)
        end_time == ParseHM(end_text)
        deadline == ParseDeadline(deadline_text)
    IN  IF ~start_time.ok \/ ~end_time.ok \/ ~deadline.ok THEN ts
        ELSE IF start_time.value > end_time.value THEN ts
        ELSE Append(ts, Task(name, task_type, priority,
                             start_time.value, end_time.value, deadline.value))

\* self.tasks after add_task: the try block appends unless a strptime or the
\* validation raised ValueError
add_task_list(ts, name, task_type, priority, start_text, end_text, deadline_text) ==
    LET start_time == ParseHM(start_text)
        end_time == ParseHM(end_text)
        deadline == ParseDeadline(deadline_text)
    IN  IF ~start_time.ok \/ ~end_time.ok \/ ~deadline.ok THEN ts
        ELSE IF start_time.value >= end_time.value THEN ts
        ELSE Append(ts, Task(name, task_type, priority,
                             start_time.value, end_time.value, deadline.value))

Names == {"A"}
TaskTypes == {"Personal", "Academic"}
Priorities == {1, 5}
StartTexts == {<<>>, <<9, 0>>, <<11, 0>>}
EndTexts == {<<9, 0>>, <<11, 0>>, <<24, 0>>}
DeadlineTexts == {<<>>, <<0, 12, 0>>}
Clock == {HM(9, 0), HM(11, 30), HM(12, 30)}

Form(start_text, end_text, deadline_text) ==
    [start |-> start_text, end |-> end_text, deadline |-> deadline_text]

\* the handlers return nothing: result is left alone, call.arg holds the form add_task read
NoForm == Form(<<>>, <<>>, <<>>)

\* def add_task(self): the messagebox is shown after the append and nothing
\* follows it, so a timer that fires while the dialog is open sees this result
add_task(name, task_type, priority, start_text, end_text, deadline_text) ==
    /\ pc = "idle"
    /\ Len(tasks) < MaxAppTasks
    /\ call' = [op |-> "add_task", tasks |-> tasks,
                arg |-> Form(start_text, end_text, deadline_text)]
    /\ tasks' = add_task_list(tasks, name, task_type, priority,
                              start_text, end_text, deadline_text)
    /\ UNCHANGED <<result, time_slots, pending, pc, reminder_label>>

\* def view_gantt_chart(self): sort_tasks sorts self.tasks in place; the plot only reads
view_gantt_chart ==
    /\ pc = "idle"
    /\ call' = [op |-> "view_gantt_chart", tasks |-> tasks, arg |-> NoForm]
    /\ tasks' = IF tasks # <<>> THEN sort_tasks_list(tasks, "priority") ELSE tasks
    /\ UNCHANGED <<result, time_slots, pending, pc, reminder_label>>

\* the event loop takes a due timer off its queue and enters the callback;
\* it does so only between handlers
TimerFires ==
    /\ pc = "idle"
    /\ pending > 0
    /\ pending' = pending - 1
    /\ pc' = "callback"
    /\ UNCHANGED <<tasks, call, result, time_slots, reminder_label>>

\* def check_and_update_reminders(self), current_time being datetime.now()
check_and_update_reminders(current_time) ==
    /\ pc = "callback"
    /\ call' = [op |-> "check_and_update_reminders", tasks |-> tasks, arg |-> NoForm]
    /\ LET reminders == check_for_reminders_list(tasks, current_time)
       IN  reminder_label' = IF reminders # <<>> THEN reminders
                             ELSE <<Message("No upcoming or missed deadlines.", "")>>
    /\ pending' = root_after(pending)
    /\ pc' = "idle"
    /\ UNCHANGED <<tasks, result, time_slots>>

\* after TaskSchedulerApp(root): no tasks, an empty label, create_widgets' timer waiting
InitApp ==
    /\ tasks = <<>>
    /\ call = NoCall(NoForm)
    /\ result = 0
    /\ time_slots = <<>>
    /\ pending = root_after(0)
    /\ pc = "idle"
    /\ reminder_label = <<>>

NextApp ==
    \/ \E name \in Names, task_type \in TaskTypes, priority \in Priorities,
          start_text \in StartTexts, end_text \in EndTexts, deadline_text \in DeadlineTexts :
            add_task(name, task_type, priority, start_text, end_text, deadline_text)
    \/ view_gantt_chart
    \/ TimerFires
    \/ \E current_time \in Clock : check_and_update_reminders(current_time)

SpecApp == InitApp /\ [][NextApp]_vars

\* root.mainloop() fires a due timer and runs its callback to the end
FairSpecApp ==
    /\ InitApp
    /\ [][NextApp]_vars
    /\ WF_vars(TimerFires)
    /\ WF_vars(\E current_time \in Clock : check_and_update_reminders(current_time))

----------------------------------------------------------------------------
(* What the claims are stated with *)

IndexSet(s) == 1..Len(s)

RECURSIVE SumOver(_, _)
\* the sum of f over a finite set of its arguments
SumOver(S, f) ==
    IF S = {} THEN 0
    ELSE LET x == CHOOSE y \in S : TRUE IN f[x] + SumOver(S \ {x}, f)

Greatest(S) == CHOOSE x \in S : \A y \in S : y <= x
Least(S) == CHOOSE x \in S : \A y \in S : x <= y

Distance(a, b) == IF a >= b THEN a - b ELSE b - a

\* h is the whole number of hours nearest to the window's length, the even one
\* when two are equally near
IsRoundedHours(task, h) ==
    LET len == task.end_time - task.start_time
    IN  \/ 2 * Distance(len, h * Hour) < Hour
        \/ 2 * Distance(len, h * Hour) = Hour /\ h % 2 = 0

RoundedHours(task) ==
    CHOOSE h \in 0..((task.end_time - task.start_time) \div Hour + 1) : IsRoundedHours(task, h)

\* the best total priority of a set of tasks, each taken once, that fits the budget
BestSubsetValue(ts, budget) ==
    LET weight == [i \in IndexSet(ts) |-> RoundedHours(ts[i])]
        value == [i \in IndexSet(ts) |-> ts[i].priority]
        fitting == {S \in SUBSET IndexSet(ts) : SumOver(S, weight) <= budget}
    IN  Greatest({SumOver(S, value) : S \in fitting})

SumOfPriorities(ts) == SumOver(IndexSet(ts), [i \in IndexSet(ts) |-> ts[i].priority])

SumOfPositivePriorities(ts) ==
    SumOver(IndexSet(ts), [i \in IndexSet(ts) |-> Max2(ts[i].priority, 0)])

Scheduled == call.op = "schedule_tasks"

----------------------------------------------------------------------------
(* C1: schedule_tasks returns the greatest sum of priorities over all sets  *)
(* of the tasks, the empty set included and each task taken at most once,   *)
(* whose rounded durations sum to at most max_time.                         *)
C1_KnapsackOptimum ==
    Scheduled => result = BestSubsetValue(call.tasks, call.arg)

\* a call where the budget leaves a task of positive priority out, one window is
\* exactly half an hour off a whole hour and one task costs nothing
C1_Witness ==
    /\ Scheduled
    /\ Len(call.tasks) = 3
    /\ 0 < result /\ result < SumOfPositivePriorities(call.tasks)
    /\ \E i \in IndexSet(call.tasks) :
          (call.tasks[i].end_time - call.tasks[i].start_time) % Hour = 30 * Minute
    /\ \E i \in IndexSet(call.tasks) :
          RoundedHours(call.tasks[i]) = 0 /\ call.tasks[i].priority > 0

\* three tasks of rounded durations 2h, 3h and 1h and priorities 3, 5 and 2, budget 4
IsExampleCall ==
    /\ Scheduled
    /\ call.arg = 4
    /\ Len(call.tasks) = 3
    /\ \E i, j, k \in IndexSet(call.tasks) :
          /\ {i, j, k} = IndexSet(call.tasks)
          /\ IsRoundedHours(call.tasks[i], 2) /\ call.tasks[i].priority = 3
          /\ IsRoundedHours(call.tasks[j], 3) /\ call.tasks[j].priority = 5
          /\ IsRoundedHours(call.tasks[k], 1) /\ call.tasks[k].priority = 2

(* C2, as claimed: on the example (durations 2h, 3h, 1h; priorities 3, 5,   *)
(* 2; budget 4) schedule_tasks returns 5.                                   *)
C2_ExampleReturnsFive == IsExampleCall => result = 5

(* C2, amended: on that example schedule_tasks returns 7, the 3h and the 1h *)
(* task together filling the budget of 4.                                   *)
C2_ExampleReturnsSeven == IsExampleCall => result = 7

\* the example, its 2h task being one of 1h40
C2_Witness ==
    /\ IsExampleCall
    /\ \E i \in IndexSet(call.tasks) :
          call.tasks[i].end_time - call.tasks[i].start_time = HM(1, 40)

(* C3, as claimed: with priorities of any sign, schedule_tasks returns at   *)
(* most the sum of the priorities of all the tasks.                         *)
C3_AtMostSumOfPriorities ==
    Scheduled => result <= SumOfPriorities(call.tasks)

(* C3, amended: schedule_tasks returns at most the sum of the positive      *)
(* priorities of the tasks (a negative priority counting as 0).             *)
C3_AtMostSumOfPositivePriorities ==
    Scheduled => result <= SumOfPositivePriorities(call.tasks)

\* a call with a task of negative priority in which the bound is attained
C3_Witness ==
    /\ Scheduled
    /\ \E i \in IndexSet(call.tasks) : call.tasks[i].priority < 0
    /\ result > 0
    /\ result = SumOfPositivePriorities(call.tasks)

(* C4: a call of schedule_tasks, check_for_reminders or analyze_busy_slots  *)
(* leaves the caller's list as it was: the same tasks in the same order.    *)
C4_CollectionUnchanged ==
    call.op \in {"schedule_tasks", "check_for_reminders", "analyze_busy_slots"}
        => tasks = call.tasks

----------------------------------------------------------------------------
ClaimedKeys == {"priority", "start_time", "end_time", "task_type"}

\* the key a task is ordered by, larger meaning later in the result
OrderKey(task, by) ==
    CASE by = "priority" -> 0 - task.priority
      [] by = "start_time" -> task.start_time
      [] by = "end_time" -> task.end_time
      [] by = "task_type" -> TypeRank(task.task_type)

Occurrences(s, x) == Cardinality({i \in IndexSet(s) : s[i] = x})

WithKey(s, by, k) ==
    LET HasKey(task) == OrderKey(task, by) = k IN SelectSeq(s, HasKey)

(* C5: for each of the four keys sort_tasks returns a permutation of its    *)
(* input, ordered by the key (priority descending, the others ascending),   *)
(* tasks of equal key in the order they had in the input.                   *)
C5_StableSortedPermutation ==
    (call.op = "sort_tasks" /\ call.arg \in ClaimedKeys) =>
        /\ Len(result) = Len(call.tasks)
        /\ \A i \in IndexSet(call.tasks) :
              Occurrences(result, call.tasks[i]) = Occurrences(call.tasks, call.tasks[i])
        /\ \A i, j \in IndexSet(result) :
              i < j => OrderKey(result[i], call.arg) <= OrderKey(result[j], call.arg)
        /\ \A i \in IndexSet(call.tasks) :
              WithKey(result, call.arg, OrderKey(call.tasks[i], call.arg))
                  = WithKey(call.tasks, call.arg, OrderKey(call.tasks[i], call.arg))

\* a sort by priority that moved tasks and left two different tasks of one priority
C5_Witness ==
    /\ call.op = "sort_tasks"
    /\ call.arg = "priority"
    /\ result # call.tasks
    /\ \E i, j \in IndexSet(call.tasks) :
          /\ i < j
          /\ call.tasks[i] # call.tasks[j]
          /\ call.tasks[i].priority = call.tasks[j].priority

----------------------------------------------------------------------------
\* the messages claimed: the tasks due within the hour or overdue, in input order
ClaimedMessages(ts, now) ==
    LET Reported(task) == task.deadline - now <= Hour
        reported == SelectSeq(ts, Reported)
    IN  [j \in IndexSet(reported) |->
            Message(IF reported[j].deadline - now < 0 THEN "missed" ELSE "approaching",
                    reported[j].name)]

(* C6: check_for_reminders gives, in input order, one "approaching" message *)
(* for each task with 0 <= deadline - current_time <= 1 hour, one "missed"  *)
(* message for each task with deadline - current_time < 0, and nothing for  *)
(* a task whose deadline is more than an hour away.                         *)
C6_ReminderClassification ==
    call.op = "check_for_reminders" => result = ClaimedMessages(call.tasks, call.arg)

\* a call with a deadline exactly an hour away, one a second further and one missed
C6_Witness ==
    /\ call.op = "check_for_reminders"
    /\ \E i, j, k \in IndexSet(call.tasks) :
          /\ call.tasks[i].deadline - call.arg = Hour
          /\ call.tasks[j].deadline - call.arg = Hour + 1
          /\ call.tasks[k].deadline - call.arg < 0
    /\ Len(result) = 2

----------------------------------------------------------------------------
Analyzed == call.op = "analyze_busy_slots"

CountAt(slots, b) ==
    IF \E k \in IndexSet(slots) : slots[k].slot = b
    THEN slots[CHOOSE k \in IndexSet(slots) : slots[k].slot = b].count
    ELSE 0

(* C7: when several buckets share the greatest count, analyze_busy_slots    *)
(* returns the one with the earliest timestamp, whatever the task order.    *)
C7_EarliestBucketWins ==
    (Analyzed /\ result.raised = "") =>
        LET most == Greatest({time_slots[k].count : k \in IndexSet(time_slots)})
            fullest == {k \in IndexSet(time_slots) : time_slots[k].count = most}
        IN  result.slot = Least({time_slots[k].slot : k \in fullest})

\* the buckets of the day: every multiple of the interval
Buckets(time_interval) == {k * time_interval * Minute : k \in 0..(Day \div (time_interval * Minute))}

Touches(task, b, time_interval) ==
    b < task.end_time /\ task.start_time < b + time_interval * Minute

(* C8: each task adds one to the count of every bucket [b, b + interval)    *)
(* that its window [start_time, end_time) touches, a bucket it enters       *)
(* part-way included.                                                       *)
C8_EveryTouchedBucketCounted ==
    Analyzed =>
        \A b \in Buckets(call.arg) :
            CountAt(time_slots, b) >=
                Cardinality({i \in IndexSet(call.tasks) : Touches(call.tasks[i], b, call.arg)})

----------------------------------------------------------------------------
AppCalls == {"add_task", "view_gantt_chart", "check_and_update_reminders"}

\* the form as typed yields a task: three well-formed texts, start before end
FormIsValid(form) ==
    /\ ParseHM(form.start).ok /\ ParseHM(form.end).ok /\ ParseDeadline(form.deadline).ok
    /\ ParseHM(form.start).value < ParseHM(form.end).value

(* C9: every task of self.tasks has start_time < end_time; an add_task      *)
(* whose form does not parse or has start_time >= end_time leaves           *)
(* self.tasks as it was; no handler takes a task out of self.tasks.         *)
C9_TasksValidAndKept ==
    /\ \A i \in IndexSet(tasks) : tasks[i].start_time < tasks[i].end_time
    /\ (call.op = "add_task" /\ ~FormIsValid(call.arg)) => tasks = call.tasks
    /\ call.op \in AppCalls =>
          \A i \in IndexSet(call.tasks) :
              Occurrences(tasks, call.tasks[i]) >= Occurrences(call.tasks, call.tasks[i])

\* an add_task with start after end, refused while the list holds a task
C9_Witness ==
    /\ call.op = "add_task"
    /\ ParseHM(call.arg.start).ok /\ ParseHM(call.arg.end).ok
    /\ ParseDeadline(call.arg.deadline).ok
    /\ ParseHM(call.arg.start).value > ParseHM(call.arg.end).value
    /\ tasks = call.tasks
    /\ Len(tasks) >= 1

(* C10: outside the callback exactly one reminder timer waits, inside it    *)
(* none does; nothing starts a second check while one runs; and a reminder  *)
(* check happens again and again, whatever add_task and view_gantt_chart    *)
(* calls come in between.                                                   *)
C10_TimerChain ==
    /\ [](pc = "idle" => pending = 1)
    /\ [](pc = "callback" => pending = 0)
    /\ [][pc = "callback" => pc' = "idle" /\ call'.op = "check_and_update_reminders"]_vars
    /\ []<>(pc = "callback")

\* a timer firing after an earlier check and a button press since
C10_Witness ==
    /\ pc = "callback"
    /\ reminder_label # <<>>
    /\ call.op \in {"add_task", "view_gantt_chart"}
    /\ Len(tasks) >= 1

====
